---- MODULE Spec2Model ----
(***************************************************************************)
(* The "users" service of moleculer-postgres-api                           *)
(* (services/users.service.js with mixins/encryption.mixin.js) and the     *)
(* authenticate and onError of the API gateway (services/api.service.js).  *)
(*                                                                         *)
(* Every action handler is an async function: each `await` is a point      *)
(* where another request may run.  The store is the "user" table behind    *)
(* the Sequelize adapter; its columns and unique constraints are those of  *)
(* model.define.                                                           *)
(* The adapter is used through its documented contract: findOne/findById   *)
(* read one row, insert adds a row or fails on a unique constraint,        *)
(* updateById writes the given fields of the row with that id.             *)
(***************************************************************************)
EXTENDS Integers, Sequences, FiniteSets, Bags, TLC

\* ------------------------------------------------------------------ bounds
\* Number of requests that may be in flight at the same time.
NumCallers == 2
\* Number of distinct ids a get / changePassword request may name.
MaxUsers == 2

UserIds == 1..MaxUsers

\* ------------------------------------------------------------ input values
Usernames == {"al", "alice", "bob"}
Emails == {"a@x.com", "b@x.com", "bad"}
Passwords == {"", "pw", "secret1", "secret2"}
Salts == {"saltA.", "saltB."}

\* { type: "email" } of the parameter validator.
IsEmail(e) == e \in {"a@x.com", "b@x.com"}

\* ------------------------------------------------------- validator limits
UsernameMin == 3
UsernameMax == 30
PasswordMin == 6
LoginPasswordMin == 1
OldPasswordMin == 1
NewPasswordMin == 6

VARIABLES
    store,      \* rows of the "user" table
    inflight,   \* bag of the requests between their first and second store call
    lastChange, \* history: per id, <<old, new>> of the last successful changePassword
    out         \* what the last step emitted: answer and log lines

vars == <<store, inflight, lastChange, out>>

\* --------------------------------------------------------- password hasher
\* bcrypt reads the first 72 bytes of a password and ignores the rest.
BcryptMaxBytes == 72

\* A string of 72 characters.
Seventy2 == "0123456789abcdefghijklmnopqrstuvwxyz0123456789abcdefghijklmnopqrstuvwxyz"

BcryptKey(p) == IF Len(p) > BcryptMaxBytes THEN SubSeq(p, 1, BcryptMaxBytes) ELSE p

\* bcrypt digest of a password: one fixed opaque string per key.
Digest(p) ==
    CASE BcryptKey(p) = "pw" -> "Zq0"
      [] BcryptKey(p) = "secret1" -> "k8W"
      [] BcryptKey(p) = "secret2" -> "Tn3"
      [] BcryptKey(p) = Seventy2 -> "Qm7"
      [] OTHER -> "e3b"

\* bcrypt.hash(password, salt): "$2b$<cost>$<salt><digest>".
BcryptHash(password, salt) == "$2b$10$" \o salt \o Digest(password)

\* bcrypt.compare(password, hash): recompute with the salt embedded in hash.
BcryptCompare(password, hash) == \E s \in Salts : hash = BcryptHash(password, s)

\* Every string the hasher can return.
HasherOutputs == {BcryptHash(p, s) : p \in Passwords \ {""}, s \in Salts}

\* ------------------------------------------------------------------ errors
ClientError(message, code, type) ==
    [kind |-> "error", name |-> "MoleculerClientError", message |-> message,
     code |-> code, type |-> type]

AlreadyExists == ClientError("Username or email already exists", 422, "ALREADY_EXISTS")
UnknownEmail == ClientError("1 Email or password is invalid", 422, "INVALID_CREDENTIALS")
WrongPassword == ClientError("2 Email or password is invalid", 422, "INVALID_CREDENTIALS")
UserNotFound == ClientError("User not found", 404, "USER_NOT_FOUND")
InvalidPassword == ClientError("Old password is invalid", 422, "INVALID_PASSWORD")

\* Thrown by the parameter validator before the handler runs.
ValidationError ==
    [kind |-> "error", name |-> "ValidationError",
     message |-> "Parameters validation error!", code |-> 422,
     type |-> "VALIDATION_ERROR"]

\* Thrown by the adapter when an insert violates a unique column.
UniqueConstraintError ==
    [kind |-> "error", name |-> "SequelizeUniqueConstraintError",
     message |-> "Validation error", code |-> 0, type |-> "none"]

\* new Error(message): no code, no type.
PlainError(message) ==
    [kind |-> "error", name |-> "Error", message |-> message, code |-> 0,
     type |-> "none"]

HashRequired == PlainError("Password is required for hashing")
CompareRequired == PlainError("Both password and hash are required for comparison")

Ok(data) == [kind |-> "ok", data |-> data]
NoResult == [kind |-> "none"]

\* ------------------------------------------------------------------- store
\* null, as findOne / findById return it.
NoUser == [id |-> 0, username |-> "", email |-> "", password |-> ""]

FindOneByEmailMutantUsername(email) ==
    IF \E u \in store : u.username = email
    THEN CHOOSE u \in store : u.username = email
    ELSE NoUser

\* adapter.findOne({ where: { email } })
FindOneByEmail(email) ==
    IF \E u \in store : u.email = email
    THEN CHOOSE u \in store : u.email = email
    ELSE NoUser

\* adapter.findById(id)
FindById(id) ==
    IF \E u \in store : u.id = id
    THEN CHOOSE u \in store : u.id = id
    ELSE NoUser

\* unique: true on username and on email.
ViolatesUnique(entity) ==
    \E u \in store : u.username = entity.username \/ u.email = entity.email

\* defaultValue: UUIDV4 -- an id no row has.
FreshId == Cardinality(store) + 1

\* ------------------------------------------------------------------- calls
\* A handler is split where it awaits the store a second time: the first
\* action runs the handler up to and including its first store read and the
\* checks on it, the second runs the rest (hashing, then the write).  Hashing
\* touches nothing shared, so it is taken together with the write it feeds.
\* Requests carry no identity of their own, so the requests that are between
\* their two steps form a bag.  out is what the last step emitted: the answer
\* sent to the caller (NoResult while the request is still in flight) and the
\* log lines written; Deliver hands it over before the next step runs.
Pending(op, params) == [op |-> op, params |-> params]

Event(op, step, params, res, log) ==
    [op |-> op, step |-> step, params |-> params, res |-> res, log |-> log]

Quiet == Event("none", "none", <<>>, NoResult, {})

\* A caller is free to send a request.
CanCall == out = Quiet /\ BagCardinality(inflight) < NumCallers

Add(r) == inflight (+) SetToBag({r})

Remove(r) == inflight (-) SetToBag({r})

Init ==
    /\ store = {}
    /\ inflight = EmptyBag
    /\ lastChange = [i \in UserIds |-> <<>>]
    /\ out = Quiet

Deliver ==
    /\ out # Quiet
    /\ out' = Quiet
    /\ UNCHANGED <<store, inflight, lastChange>>

\* ---------------------------------------------------------------- register
RegisterParamsValidMutantNoMax(p) ==
    /\ Len(p.username) >= UsernameMin
    /\ IsEmail(p.email)
    /\ Len(p.password) >= PasswordMin

RegisterParamsValid(p) ==
    /\ Len(p.username) >= UsernameMin
    /\ Len(p.username) <= UsernameMax
    /\ IsEmail(p.email)
    /\ Len(p.password) >= PasswordMin

\* register handler, up to the check of `exists`.
RegisterPreCheck(p) ==
    IF ~RegisterParamsValid(p) THEN ValidationError
    ELSE IF FindOneByEmail(p.email) # NoUser THEN AlreadyExists
    ELSE NoResult

\* ctx.params of a register request; the validator lets fields the schema
\* does not name pass, here a role and an active flag.
RegisterParams(username, email, password, extra) ==
    IF extra
    THEN [username |-> username, email |-> email, password |-> password,
          role |-> "admin", active |-> FALSE]
    ELSE [username |-> username, email |-> email, password |-> password]

\* register, for requests drawn from the given usernames, with or without the
\* extra fields.
RegisterWith(usernames, extras) ==
    /\ CanCall
    /\ \E username \in usernames, email \in Emails, password \in Passwords,
          extra \in extras :
         LET p == RegisterParams(username, email, password, extra)
             r == RegisterPreCheck(p)
         IN /\ inflight' = IF r = NoResult THEN Add(Pending("register", p)) ELSE inflight
            /\ out' = Event("register", "check", p, r, {})
    /\ UNCHANGED <<store, lastChange>>

Register == RegisterWith(Usernames, {FALSE})

\* const { username, email, password } = ctx.params
RegisterFieldsMutantAll(p) == p

RegisterFields(p) ==
    [username |-> p.username, email |-> p.email, password |-> p.password]

\* The row the model builds from the fields it is given: a field that is not
\* given takes the column's defaultValue.
NewUser(fields, id, hash) ==
    [id |-> id, username |-> fields.username, email |-> fields.email,
     password |-> hash,
     active |-> IF "active" \in DOMAIN fields THEN fields.active ELSE TRUE,
     role |-> IF "role" \in DOMAIN fields THEN fields.role ELSE "user"]

\* adapter.insert(entity): the created row, or the unique-constraint error.
InsertResult(entity) ==
    IF ViolatesUnique(entity) THEN UniqueConstraintError ELSE Ok(entity)

\* register handler from hashPassword on: hash, insert, return the row.
RegisterInsert ==
    /\ out = Quiet
    /\ \E r \in BagToSet(inflight) :
         /\ r.op = "register"
         /\ LET p == r.params
            IN IF p.password = ""
               THEN /\ out' = Event("register", "insert", p, HashRequired, {})
                    /\ UNCHANGED store
               ELSE \E salt \in Salts :
                      LET entity == NewUser(RegisterFields(p), FreshId,
                                            BcryptHash(p.password, salt))
                          res == InsertResult(entity)
                      IN /\ store' = IF res.kind = "ok" THEN store \cup {entity} ELSE store
                         /\ out' = Event("register", "insert", p, res, {})
         /\ inflight' = Remove(r)
    /\ UNCHANGED lastChange

\* ------------------------------------------------------------------- login
LoginParamsValid(p) ==
    /\ IsEmail(p.email)
    /\ Len(p.password) >= LoginPasswordMin

\* console.log of comparePassword.
CompareLogLine(password, hash) == <<"password ", password, " hash ", hash>>

\* this.logger.info(`USER : ${user}`): the row object's toString.
UserLogLine == <<"USER : ", "[object Object]">>

\* user.get({ plain: true }) with the password deleted.
WithoutPassword(user) ==
    [id |-> user.id, username |-> user.username, email |-> user.email,
     active |-> user.active, role |-> user.role]

PlaceholderToken == "JWT_TOKEN_WOULD_GO_HERE"

\* comparePassword(password, hash): an error, or the boolean as "true"/"false".
ComparePasswordMutantNoCompare(password, hash) ==
    IF password = "" \/ hash = "" THEN "error" ELSE "true"

ComparePassword(password, hash) ==
    IF password = "" \/ hash = "" THEN "error"
    ELSE IF BcryptCompare(password, hash) THEN "true"
    ELSE "false"

LoginResult(p) ==
    LET user == FindOneByEmail(p.email)
        isValid == ComparePassword(p.password, user.password)
    IN IF ~LoginParamsValid(p) THEN ValidationError
       ELSE IF user = NoUser THEN UnknownEmail
       ELSE IF isValid = "error" THEN CompareRequired
       ELSE IF isValid = "false" THEN WrongPassword
       ELSE Ok([user |-> WithoutPassword(user), token |-> PlaceholderToken])

LoginLog(p) ==
    LET user == FindOneByEmail(p.email)
    IN IF ~LoginParamsValid(p) \/ user = NoUser THEN {}
       ELSE {UserLogLine, CompareLogLine(p.password, user.password)}

\* The login handler reads the store once (findOne); the rest is local.
Login ==
    /\ CanCall
    /\ \E email \in Emails, password \in Passwords :
         LET p == [email |-> email, password |-> password]
         IN out' = Event("login", "login", p, LoginResult(p), LoginLog(p))
    /\ UNCHANGED <<store, inflight, lastChange>>

\* --------------------------------------------------------------------- get
GetResult(p) ==
    LET user == FindById(p.id)
    IN IF user = NoUser THEN UserNotFound ELSE Ok(WithoutPassword(user))

Get ==
    /\ CanCall
    /\ \E id \in UserIds :
         LET p == [id |-> id]
         IN out' = Event("get", "get", p, GetResult(p), {})
    /\ UNCHANGED <<store, inflight, lastChange>>

\* ---------------------------------------------------------- changePassword
ChangeParamsValid(p) ==
    /\ Len(p.oldPassword) >= OldPasswordMin
    /\ Len(p.newPassword) >= NewPasswordMin

\* changePassword handler, up to the check of `isValid`.
ChangeVerify(p) ==
    LET user == FindById(p.id)
        isValid == ComparePassword(p.oldPassword, user.password)
    IN IF ~ChangeParamsValid(p) THEN ValidationError
       ELSE IF user = NoUser THEN UserNotFound
       ELSE IF isValid = "error" THEN CompareRequired
       ELSE IF isValid = "false" THEN InvalidPassword
       ELSE NoResult

ChangeLog(p) ==
    LET user == FindById(p.id)
    IN IF ~ChangeParamsValid(p) \/ user = NoUser THEN {}
       ELSE {CompareLogLine(p.oldPassword, user.password)}

ChangePassword ==
    /\ CanCall
    /\ \E id \in UserIds, oldPassword \in Passwords, newPassword \in Passwords :
         LET p == [id |-> id, oldPassword |-> oldPassword, newPassword |-> newPassword]
             r == ChangeVerify(p)
         IN /\ inflight' = IF r = NoResult THEN Add(Pending("changePassword", p))
                           ELSE inflight
            /\ out' = Event("changePassword", "verify", p, r, ChangeLog(p))
    /\ UNCHANGED <<store, lastChange>>

\* adapter.updateById(id, fields): the rows after the write.
UpdateById(id, fields) ==
    {IF u.id = id THEN [u EXCEPT !.password = fields.password] ELSE u : u \in store}

\* The password changePassword writes.
NewHashMutantOld(p, salt) == BcryptHash(p.oldPassword, salt)

NewHash(p, salt) == BcryptHash(p.newPassword, salt)

\* changePassword handler from hashPassword on: hash, updateById.
ChangeUpdate ==
    /\ out = Quiet
    /\ \E r \in BagToSet(inflight) :
         /\ r.op = "changePassword"
         /\ LET p == r.params
            IN IF p.newPassword = ""
               THEN /\ out' = Event("changePassword", "update", p, HashRequired, {})
                    /\ UNCHANGED <<store, lastChange>>
               ELSE \E salt \in Salts :
                      /\ store' = UpdateById(p.id, [password |-> NewHash(p, salt)])
                      /\ out' = Event("changePassword", "update", p,
                                      Ok(CHOOSE u \in store' : u.id = p.id), {})
                      /\ lastChange' = [lastChange EXCEPT ![p.id] =
                             IF p.oldPassword # p.newPassword
                             THEN <<p.oldPassword, p.newPassword>> ELSE <<>>]
         /\ inflight' = Remove(r)

\* ------------------------------------------------------------- whole system
Next ==
    \/ Register
    \/ RegisterInsert
    \/ Login
    \/ Get
    \/ ChangePassword
    \/ ChangeUpdate
    \/ Deliver

Spec == Init /\ [][Next]_vars

\* ------------------------------------------- create / update (DbService)
\* The service mixes in DbService, so it also serves create and update; the
\* before-hooks hash ctx.params.password when it is truthy.
HookPassword(password, salt) ==
    IF password # "" THEN BcryptHash(password, salt) ELSE password

\* settings.entityValidator, applied by create to the entity the hook left.
EntityValid(e) ==
    /\ Len(e.username) >= UsernameMin
    /\ Len(e.username) <= UsernameMax
    /\ IsEmail(e.email)
    /\ Len(e.password) >= PasswordMin

\* create: hook, entity validation, insert; the answer keeps settings.fields.
Create ==
    /\ CanCall
    /\ \E username \in Usernames, email \in Emails, password \in Passwords,
          salt \in Salts :
         LET p == [username |-> username, email |-> email, password |-> password]
             entity == NewUser(p, FreshId, HookPassword(password, salt))
             res == IF ~EntityValid(entity) THEN ValidationError
                    ELSE IF ViolatesUnique(entity) THEN UniqueConstraintError
                    ELSE Ok(WithoutPassword(entity))
         IN /\ store' = IF res.kind = "ok" THEN store \cup {entity} ELSE store
            /\ out' = Event("create", "create", p, res, {})
    /\ UNCHANGED <<inflight, lastChange>>

EntityNotFound ==
    [kind |-> "error", name |-> "EntityNotFoundError",
     message |-> "Entity not found", code |-> 404, type |-> "none"]

\* update: hook, then the password of the row with that id is set.
Update ==
    /\ CanCall
    /\ \E id \in UserIds, password \in Passwords, salt \in Salts :
         LET p == [id |-> id, password |-> password]
         IN IF FindById(id) = NoUser
            THEN /\ out' = Event("update", "update", p, EntityNotFound, {})
                 /\ UNCHANGED <<store, lastChange>>
            ELSE /\ store' = UpdateById(id, [password |-> HookPassword(password, salt)])
                 /\ out' = Event("update", "update", p,
                                 Ok(WithoutPassword(FindById(id))), {})
                 /\ lastChange' = [lastChange EXCEPT ![id] = <<>>]
    /\ UNCHANGED inflight

NextDb ==
    \/ Next
    \/ Create
    \/ Update

SpecDb == Init /\ [][NextDb]_vars

\* -------------------------------------------- register, wider request set
\* A username of 31 characters.
LongUsername == "abcdefghijklmnopqrstuvwxyz01234"

RegisterAny == RegisterWith(Usernames \cup {LongUsername}, BOOLEAN)

NextRegister ==
    \/ RegisterAny
    \/ RegisterInsert
    \/ Login
    \/ Deliver

SpecRegister == Init /\ [][NextRegister]_vars

\* ------------------------------------------------- a store that is slow
\* The time a caller allows for its request runs out while the handler awaits
\* the store.  No handler and no broker option sets a timer, so nothing is
\* answered and the request stays in flight, from now on overdue; its second
\* step still runs when the store answers.
Timeout ==
    /\ out = Quiet
    /\ \E r \in BagToSet(inflight) :
         /\ "overdue" \notin DOMAIN r
         /\ inflight' = Remove(r) (+)
                SetToBag({[op |-> r.op, params |-> r.params, overdue |-> TRUE]})
    /\ UNCHANGED <<store, lastChange, out>>

NextOutage ==
    \/ Next
    \/ Timeout

SpecOutage == Init /\ [][NextOutage]_vars

\* ------------------------------------------------------ the hasher alone
\* Passwords given to the hasher: those of the requests and two that differ
\* after their 72nd character.
HashPasswords == Passwords \cup {Seventy2 \o "x", Seventy2 \o "y"}

\* hashPassword(password)
HashPassword(password, salt) ==
    IF password = "" THEN HashRequired ELSE Ok(BcryptHash(password, salt))

\* A pair of passwords: p2 is to be hashed, p1 to be compared with the hash.
InitHash ==
    /\ store = {}
    /\ inflight = EmptyBag
    /\ lastChange = [i \in UserIds |-> <<>>]
    /\ out \in {Event("hasher", "input", [p1 |-> p1, p2 |-> p2], NoResult, {}) :
                   p1 \in HashPasswords, p2 \in HashPasswords}

HashStep ==
    /\ out.op = "hasher"
    /\ out.step = "input"
    /\ \E salt \in Salts :
         out' = [out EXCEPT !.step = "hashed",
                            !.res = HashPassword(out.params.p2, salt)]
    /\ UNCHANGED <<store, inflight, lastChange>>

CompareStep ==
    /\ out.op = "hasher"
    /\ out.step = "hashed"
    /\ out.res.kind = "ok"
    /\ LET h == out.res.data
           isValid == ComparePassword(out.params.p1, h)
       IN out' = Event("hasher", "compared",
                       [p1 |-> out.params.p1, p2 |-> out.params.p2, h |-> h],
                       IF isValid = "error" THEN CompareRequired ELSE Ok(isValid),
                       {CompareLogLine(out.params.p1, h)})
    /\ UNCHANGED <<store, inflight, lastChange>>

NextHash ==
    \/ HashStep
    \/ CompareStep

SpecHash == InitHash /\ [][NextHash]_vars

\* ------------------------------------------------------- gateway: bearer
\* The Authorization header as the characters of its scheme followed by the
\* token; a missing header is the empty sequence.
BearerHeader(token) == <<"B", "e", "a", "r", "e", "r", " ", token>>

NoAuth == [id |-> "null"]

\* authenticate(ctx, route, req)
Authenticate(auth) ==
    IF Len(auth) >= 6 /\ SubSeq(auth, 1, 6) = <<"B", "e", "a", "r", "e", "r">>
    THEN IF SubSeq(auth, 8, Len(auth)) # <<>> /\ SubSeq(auth, 8, Len(auth)) # <<"">>
         THEN [id |-> "some-user-id"]
         ELSE NoAuth
    ELSE NoAuth

\* ------------------------------------------------------ gateway: requests
\* Bearer tokens a client may send: none after the scheme, the one login
\* hands out, and one no login ever returned.
Tokens == {"", PlaceholderToken, "forged"}

\* Authorization headers of the requests; <<>> is a request without one.
Headers == {<<>>} \cup {BearerHeader(t) : t \in Tokens}

\* The only token the service issues.
Issued(token) == token = PlaceholderToken

\* The answer of the gateway to a request authenticate resolves to null.
Unauthorized ==
    [kind |-> "error", name |-> "UnAuthorizedError",
     message |-> "Unauthorized", code |-> 401, type |-> "NO_TOKEN"]

\* The route has authentication on: authenticate runs before the action.
Admitted(auth) == Authenticate(auth) # NoAuth

\* What a step of a request that came through the gateway emitted.
GatewayEvent(op, step, params, res, log, auth) ==
    [op |-> op, step |-> step, params |-> params, res |-> res, log |-> log,
     auth |-> auth]

\* GET /api/users/:id
GatewayGet ==
    /\ CanCall
    /\ \E auth \in Headers, id \in UserIds :
         LET p == [id |-> id]
         IN out' = IF Admitted(auth)
                   THEN GatewayEvent("get", "get", p, GetResult(p), {}, auth)
                   ELSE GatewayEvent("get", "gateway", p, Unauthorized, {}, auth)
    /\ UNCHANGED <<store, inflight, lastChange>>

\* PUT /api/users/:id/password
GatewayChangePassword ==
    /\ CanCall
    /\ \E auth \in Headers, id \in UserIds, oldPassword \in Passwords,
          newPassword \in Passwords :
         LET p == [id |-> id, oldPassword |-> oldPassword, newPassword |-> newPassword]
             r == ChangeVerify(p)
         IN IF Admitted(auth)
            THEN /\ inflight' = IF r = NoResult
                                 THEN Add(Pending("changePassword", p))
                                 ELSE inflight
                 /\ out' = GatewayEvent("changePassword", "verify", p, r,
                                        ChangeLog(p), auth)
            ELSE /\ inflight' = inflight
                 /\ out' = GatewayEvent("changePassword", "gateway", p,
                                        Unauthorized, {}, auth)
    /\ UNCHANGED <<store, lastChange>>

NextGateway ==
    \/ Register
    \/ RegisterInsert
    \/ GatewayGet
    \/ GatewayChangePassword
    \/ ChangeUpdate
    \/ Deliver

SpecGateway == Init /\ [][NextGateway]_vars

\* ------------------------------------------------------- gateway: onError
GenericMessage == "Server error occurred"

ServerErrorCode == 500

\* res.writeHead(...): err.code when it is truthy.
OnErrorStatus(err) == IF err.code # 0 THEN err.code ELSE ServerErrorCode

\* The error object of the JSON body.
OnErrorBodyMutantPassMessage(err) ==
    [name |-> err.name, message |-> err.message, code |-> err.code,
     type |-> err.type]

OnErrorBody(err) ==
    IF err.name = "MoleculerClientError"
    THEN [name |-> err.name, message |-> err.message, code |-> err.code,
          type |-> err.type]
    ELSE [name |-> err.name, message |-> GenericMessage, code |-> ServerErrorCode]

\* onError(req, res, err)
OnError(err) == [status |-> OnErrorStatus(err), body |-> OnErrorBody(err)]

\* The gateway turns the failure of a request into the HTTP response.
Respond ==
    /\ out.res.kind = "error"
    /\ "http" \notin DOMAIN out
    /\ out' = [http |-> OnError(out.res)] @@ out
    /\ UNCHANGED <<store, inflight, lastChange>>

NextHttp ==
    \/ Register
    \/ RegisterInsert
    \/ Login
    \/ GatewayGet
    \/ Respond
    \/ Deliver

SpecHttp == Init /\ [][NextHttp]_vars

\* ===================================================================
\* Properties
\* ===================================================================
IsAnswer(op) == out.op = op /\ out.res.kind # "none"

\* What a client sees of an error.
ClientView(err) ==
    [name |-> err.name, code |-> err.code, type |-> err.type, message |-> err.message]

EmailTaken(email) == \E u \in store : u.email = email

\* C1: when register calls with the same email race, the call that passed its
\* pre-check but finds the email inserted by another call fails with the
\* AlreadyExists error, and a call that succeeds is the only one whose row
\* holds that email.
C1_RaceLoserAlreadyExists ==
    (out.op = "register" /\ out.step = "insert") =>
        /\ (out.res.kind = "error" /\ EmailTaken(out.params.email))
              => out.res = AlreadyExists
        /\ out.res.kind = "ok"
              => Cardinality({u \in store : u.email = out.params.email}) = 1

\* C2 as stated: at most one stored user per email, and every register call
\* whose email belongs to a stored user is answered AlreadyExists.
C2_Original ==
    /\ \A u, v \in store : u.email = v.email => u = v
    /\ (out.op = "register" /\ out.step = "check" /\ EmailTaken(out.params.email))
          => out.res = AlreadyExists

\* C2 amended: at most one stored user per email; a register call with
\* parameters of valid shape whose email belongs to a stored user is answered
\* AlreadyExists, and the step that answers it leaves the store as it was.
C2_UniqueEmail ==
    /\ [](\A u, v \in store : u.email = v.email => u = v)
    /\ []((out.op = "register" /\ out.step = "check"
             /\ RegisterParamsValid(out.params) /\ EmailTaken(out.params.email))
            => out.res = AlreadyExists)
    /\ [][(out'.op = "register" /\ out'.step = "check" /\ out' # out)
            => store' = store]_vars

C2_Witness ==
    /\ out.op = "register"
    /\ out.step = "check"
    /\ EmailTaken(out.params.email)
    /\ out.res = AlreadyExists

\* C3: a register call whose username is held by a stored user while no stored
\* user has its email is answered AlreadyExists.
C3_UsernameTakenAlreadyExists ==
    (/\ IsAnswer("register")
     /\ RegisterParamsValid(out.params)
     /\ \E u \in store : u.username = out.params.username
     /\ ~EmailTaken(out.params.email))
        => out.res = AlreadyExists

\* C4: the error of a failed login is, in every field a client sees, the error
\* a login with the same password gets for an email no stored user has.
C4_LoginErrorsIndistinguishable ==
    (out.op = "login" /\ out.res.kind = "error"
       /\ out.res.type = "INVALID_CREDENTIALS") =>
        \A e \in Emails :
            (IsEmail(e) /\ ~EmailTaken(e)) =>
                ClientView(LoginResult([email |-> e, password |-> out.params.password]))
                    = ClientView(out.res)

StillLogsIn(u) ==
    \A q \in Passwords :
        (q # "" /\ BcryptCompare(q, u.password)) =>
            LoginResult([email |-> u.email, password |-> q]).kind = "ok"

\* C6 as stated: every changePassword for an existing user whose stored hash
\* does not verify against oldPassword is answered InvalidPassword.
C6_Original ==
    \A u \in store :
        (/\ out.op = "changePassword"
         /\ out.step = "verify"
         /\ out.params.id = u.id
         /\ ~BcryptCompare(out.params.oldPassword, u.password))
            => out.res = InvalidPassword

\* C6 amended: a changePassword with parameters of valid shape (oldPassword
\* not empty, newPassword of at least 6 characters) for an existing user whose
\* stored hash does not verify against oldPassword is answered
\* InvalidPassword; the step leaves the store as it was and the user's
\* password still logs in.
C6_WrongOldPassword ==
    /\ [](\A u \in store :
            (/\ out.op = "changePassword"
             /\ out.step = "verify"
             /\ ChangeParamsValid(out.params)
             /\ out.params.id = u.id
             /\ ~BcryptCompare(out.params.oldPassword, u.password))
                => (out.res = InvalidPassword /\ StillLogsIn(u)))
    /\ [][(out'.op = "changePassword" /\ out'.step = "verify" /\ out' # out)
            => store' = store]_vars

C6_Witness ==
    \E u \in store :
        /\ out.op = "changePassword"
        /\ out.step = "verify"
        /\ out.params.id = u.id
        /\ ~BcryptCompare(out.params.oldPassword, u.password)
        /\ out.res = InvalidPassword

\* C7: no successful answer of register, login or get has a password or
\* passwordHash field.
C7_NoPasswordInAnswer ==
    (out.res.kind = "ok" /\ out.op \in {"register", "login", "get"}) =>
        LET user == IF out.op = "login" THEN out.res.data.user ELSE out.res.data
        IN {"password", "passwordHash"} \cap DOMAIN user = {}

\* The passwords a request carries.
SuppliedPasswords(p) ==
    {p[f] : f \in DOMAIN p \cap {"password", "oldPassword", "newPassword"}}

\* C8: no log line written while serving register, login or changePassword
\* contains a password the caller supplied or a stored password hash.
C8_NoSecretInLog ==
    out.op \in {"register", "login", "changePassword"} =>
        \A line \in out.log : \A i \in 1..Len(line) :
            /\ line[i] \notin SuppliedPasswords(out.params)
            /\ line[i] \notin {u.password : u \in store}

\* C9: the password of every stored user is an output of the hasher applied
\* once to a password a caller supplied.
C9_StoredPasswordIsHash ==
    \A u \in store : u.password \in HasherOutputs

\* C10: the token of a successful login verifies to the id, username and
\* email of the user who logged in.
C10_TokenCarriesClaims ==
    (out.op = "login" /\ out.res.kind = "ok") =>
        LET claims == Authenticate(BearerHeader(out.res.data.token))
        IN /\ DOMAIN claims = {"id", "username", "email"}
           /\ \A f \in DOMAIN claims : claims[f] = out.res.data.user[f]

\* C11: a get or changePassword request without Authorization header, or with
\* a bearer token that was never issued, is answered 401 by the gateway and
\* no action of the service runs for it.
C11_UnauthenticatedRejected ==
    (/\ out.op \in {"get", "changePassword"}
     /\ "auth" \in DOMAIN out
     /\ \/ out.auth = <<>>
        \/ \E t \in Tokens : out.auth = BearerHeader(t) /\ ~Issued(t))
        => (out.step = "gateway" /\ out.res.code = 401)

\* A register request of invalid shape.
Malformed(p) ==
    \/ Len(p.username) < UsernameMin
    \/ Len(p.username) > UsernameMax
    \/ ~IsEmail(p.email)
    \/ Len(p.password) < PasswordMin

\* C12: a register call whose username is shorter than 3 or longer than 30
\* characters, whose email is not a valid email or whose password is shorter
\* than 6 characters is answered ValidationError by its first step, which
\* leaves the store as it was, writes no log line and does not keep the
\* request in flight; no insert step ever runs for such a request.
C12_MalformedRejected ==
    /\ []((out.op = "register" /\ out.step = "check" /\ Malformed(out.params))
            => (out.res = ValidationError /\ out.log = {}))
    /\ []((out.op = "register" /\ out.step = "insert") => ~Malformed(out.params))
    /\ [][(out'.op = "register" /\ out' # out /\ Malformed(out'.params))
            => (store' = store /\ inflight' = inflight)]_vars

C12_Witness ==
    /\ out.op = "register"
    /\ out.step = "check"
    /\ Len(out.params.username) > UsernameMax
    /\ IsEmail(out.params.email)
    /\ EmailTaken(out.params.email)
    /\ out.res = ValidationError

C14_StoreFrame ==
    [][store' # store =>
         \/ /\ out'.op = "register"
            /\ out'.res.kind = "ok"
            /\ out'.res.data \notin store
            /\ store' = store \cup {out'.res.data}
         \/ /\ out'.op = "changePassword"
            /\ out'.res.kind = "ok"
            /\ \E u \in store :
                 /\ u.id = out'.params.id
                 /\ store' = (store \ {u})
                                \cup {[u EXCEPT !.password = out'.res.data.password]}]_vars

\* C15: a request whose timeout ran out while it awaited the store is no
\* longer in flight: it was answered (with the Unavailable error) when the
\* timeout elapsed, so it neither waits on nor applies its write afterwards.
C15_TimeoutAnswered ==
    \A r \in BagToSet(inflight) : "overdue" \notin DOMAIN r

\* C16: for non-empty passwords p1 and p2, hashPassword(p2) returns a hash h
\* other than p2, and comparePassword(p1, h) returns true when p1 = p2 and
\* the value false when p1 # p2.
C16_HashCompare ==
    (out.op = "hasher" /\ out.params.p1 # "" /\ out.params.p2 # "") =>
        /\ out.step = "hashed" => (out.res.kind = "ok" /\ out.res.data # out.params.p2)
        /\ out.step = "compared" =>
              out.res = Ok(IF out.params.p1 = out.params.p2 THEN "true" ELSE "false")

\* The typed client errors the service raises itself.
ServiceErrors ==
    {AlreadyExists, UnknownEmail, WrongPassword, UserNotFound, InvalidPassword}

\* C17: the body of the response to a failed request has no field besides
\* name, message, code and type (no stack), and unless the error is one of
\* the service's own typed client errors its message is the fixed generic
\* message, not the message of the error.
C17_NoInternalMessage ==
    ("http" \in DOMAIN out) =>
        /\ DOMAIN out.http.body \subseteq {"name", "message", "code", "type"}
        /\ out.res \notin ServiceErrors =>
              /\ out.http.body.message = GenericMessage
              /\ out.http.body.message # out.res.message

C17_Witness ==
    /\ "http" \in DOMAIN out
    /\ out.op = "register"
    /\ out.res = UniqueConstraintError
    /\ out.http.body.message = GenericMessage

\* C18: a changePassword writes its new hash only while oldPassword verifies
\* against the hash stored at the moment of the write; so of two concurrent
\* calls with the correct oldPassword and different newPasswords at most one
\* succeeds.
C18_WriteChecksCurrentHash ==
    [][(out'.op = "changePassword" /\ out'.step = "update"
          /\ out'.res.kind = "ok" /\ out' # out)
         => \E u \in store :
               /\ u.id = out'.params.id
               /\ BcryptCompare(out'.params.oldPassword, u.password)]_vars

\* C19: the status of the response to a failed request is the code field of
\* its body.
C19_StatusIsBodyCode ==
    ("http" \in DOMAIN out) => out.http.status = out.http.body.code

====
